---- MODULE Spec2Model ----
(***************************************************************************)
(* A model of the native-planet orchestrator: the filesystem lock          *)
(* (src/src/filelock.rs), the TCP port issuer (src/src/net_util.rs), the  *)
(* pier lifecycle (src/src/ship.rs) and the runtime-version strings        *)
(* (src/src/urbit.rs).                                                     *)
(*                                                                         *)
(* An action is the completion of one awaited call of an operation, with   *)
(* the code that follows it up to the next awaited call; the operations of *)
(* different tasks interleave between these steps.  A handle under         *)
(* construction and a call in progress are slots of hnd whose kind is the  *)
(* position in the code.  The is_dir check of Harbor::port_path and        *)
(* Harbor::dry_dock_path is taken with the step that follows it: nothing   *)
(* in the program creates, removes or renames the two zone directories.    *)
(*                                                                         *)
(* The specifications share the variables:                                 *)
(*   SpecLock    - tasks calling FileLock::try_acquire / acquire / release *)
(*                 and dropping locks, one step per filesystem access      *)
(*                 (FairLock: the same under the runtime's scheduling);    *)
(*   SpecPort    - calls of TcpPortIssuer::get_port on one issuer;         *)
(*   Spec        - the pier handles of ship.rs over a harbor directory,    *)
(*                 every operation of PierState and Ship;                  *)
(*   SpecDock    - the three constructors, load_from_dry_dock and drops;   *)
(*   SpecKeyfile - new_from_keyfile with loads of the dry dock and drops;  *)
(*   SpecBoot    - keyfile piers and comets created, loaded from the dry   *)
(*                 dock and launched;                                      *)
(*   SpecShip    - keyfile piers launched, their ships shut down or        *)
(*                 dropped;                                                *)
(*   SpecPromote - keyfile piers and comets released to the port and       *)
(*                 loaded there;                                           *)
(*   SpecLife    - piers of one name launched, shut down, released and     *)
(*                 loaded from the port, with ships that boot;             *)
(*   SpecConfig  - the config.json files of earlier runs, with any         *)
(*                 runtime-version string, loaded and written back.        *)
(***************************************************************************)
EXTENDS Integers, FiniteSets, Sequences, TLC

\* ------------------------------------------------------------------ bounds
NTasks == 2
NPaths == 1
PortSpan == 3
MaxPiers == 2
MaxHandles == 2
IssuerSpan == 2

Tasks == 1..NTasks
Paths == 1..NPaths

\* u16::MAX: the ports of a Range<u16>
U16Max == 65535
\* the ports the model ranges over: the top of the u16 range
Ports == (U16Max - PortSpan)..U16Max

VARIABLES
  marker,   \* FileLock: marker[p] = the marker file of path p exists
  task,     \* FileLock: per task, the call in progress and the FileLock it owns
  conf,     \* the range the issuer was constructed with (TcpPortIssuer::new)
  range,    \* TcpPortIssuer.range: [start, end), start is the cursor
  last,     \* the last get_port call: its result and what it probed
  issued,   \* the ports get_port has returned so far
  dup,      \* some get_port call returned a port returned before
  failed,   \* some get_port call failed with "no ports available!"
  fs,       \* the harbor: fs.dock[id] and fs.port[name], one record per pier directory
  hnd,      \* the PierState and Ship values alive in the program, by slot
  nextId,   \* the next identifier Uuid::new_v4 hands out
  http,     \* the http port issuer passed to launch (its range)
  ames,     \* the ames port issuer passed to launch (its range)
  procs,    \* the urbit processes running, each with its pier directory and ports
  opres     \* the last pier operation: its argument and how it ended

lockVars == <<marker, task>>
portVars == <<conf, range, last, issued, dup, failed>>
pierVars == <<fs, hnd, nextId, http, ames, procs, opres>>
\* what the actions of each part leave alone
notLockVars == <<portVars, pierVars>>
notPortVars == <<lockVars, pierVars>>
notPierVars == <<lockVars, portVars>>
vars == <<marker, task, conf, range, last, issued, dup, failed,
          fs, hnd, nextId, http, ames, procs, opres>>

\* ================================================================ FileLock

\* `_ = fs::File::create(&path);` with async_std's fs: File::create is an
\* async fn, the statement builds its future and discards it without
\* awaiting it, so the body never runs and no file is created.  The marker
\* is present afterwards exactly if it was present before.
FileCreateDiscarded(present) == present

\* fs::remove_file: Ok iff the file exists; the file is absent afterwards.
RemoveFileOk(present) == present
RemoveFile(present) == FALSE

\* the loop condition of acquire: keep sleeping while the marker exists
\* (PollInverted: the condition negated)
PollInverted(present) == ~present
PollAgain(present) == present

NoLock == [pc |-> "idle", path |-> 0, held |-> FALSE, via |-> "-",
           waited |-> FALSE, early |-> FALSE, ret |-> "-"]

OtherHolder(t, p) == \E u \in Tasks \ {t} : task[u].held /\ task[u].path = p

InitLockVars ==
  /\ marker = [p \in Paths |-> FALSE]
  /\ task = [t \in Tasks |-> NoLock]

\* try_acquire, lines 15-20: path.exists().await; Ok(None) if it exists
TryAcquireExists(t, p) ==
  /\ task[t].pc = "idle" /\ ~task[t].held
  /\ task' = [task EXCEPT ![t] =
        IF marker[p]
          THEN [NoLock EXCEPT !.ret = "none"]
          ELSE [NoLock EXCEPT !.pc = "try_create", !.path = p]]
  /\ UNCHANGED <<marker, notLockVars>>

\* try_acquire, lines 22-27: the discarded create, then Ok(Some(FileLock))
TryAcquireCreate(t) ==
  /\ UNCHANGED notLockVars
  /\ task[t].pc = "try_create"
  /\ LET p == task[t].path IN
     /\ marker' = [marker EXCEPT ![p] = FileCreateDiscarded(marker[p])]
     /\ task' = [task EXCEPT ![t] =
          [NoLock EXCEPT !.path = p, !.held = TRUE, !.via = "try",
                         !.ret = "some"]]

\* acquire, lines 33-35: while path.exists().await { sleep(50 ms) }
AcquireExists(t, p) ==
  /\ \/ task[t].pc = "idle" /\ ~task[t].held
     \/ task[t].pc = "acq_sleep" /\ task[t].path = p
  /\ task' = [task EXCEPT ![t] =
        IF PollAgain(marker[p])
          THEN [NoLock EXCEPT !.pc = "acq_sleep", !.path = p,
                              !.waited = TRUE]
          ELSE [NoLock EXCEPT !.pc = "acq_create", !.path = p,
                              !.waited = task[t].waited]]
  /\ UNCHANGED <<marker, notLockVars>>

\* acquire, lines 37-42: the discarded create, then Ok(FileLock)
AcquireCreate(t) ==
  /\ UNCHANGED notLockVars
  /\ task[t].pc = "acq_create"
  /\ LET p == task[t].path IN
     /\ marker' = [marker EXCEPT ![p] = FileCreateDiscarded(marker[p])]
     /\ task' = [task EXCEPT ![t] =
          [NoLock EXCEPT !.path = p, !.held = TRUE, !.via = "acq",
                         !.waited = task[t].waited,
                         !.early = OtherHolder(t, p), !.ret = "some"]]

\* release, lines 45-49: remove_file(&self.path).await?; on Ok the lock is
\* marked released and its Drop does nothing; on Err the `?` returns with
\* released still false and the lock value is dropped next.
Release(t) ==
  /\ UNCHANGED notLockVars
  /\ task[t].pc = "idle" /\ task[t].held
  /\ LET p == task[t].path IN
     IF RemoveFileOk(marker[p])
       THEN /\ marker' = [marker EXCEPT ![p] = RemoveFile(marker[p])]
            /\ task' = [task EXCEPT ![t] = [NoLock EXCEPT !.ret = "released"]]
       ELSE /\ marker' = marker
            /\ task' = [task EXCEPT ![t].pc = "rel_drop", ![t].ret = "-"]

\* Drop for FileLock (lines 52-64) at the end of a release that failed:
\* std::fs::remove_file again, its error only logged.
ReleaseFailedDrop(t) ==
  /\ UNCHANGED notLockVars
  /\ task[t].pc = "rel_drop"
  /\ marker' = [marker EXCEPT ![task[t].path] = RemoveFile(marker[task[t].path])]
  /\ task' = [task EXCEPT ![t] = [NoLock EXCEPT !.ret = "release_err"]]

\* Drop for FileLock (lines 52-64) of a lock that was never released
DropLock(t) ==
  /\ UNCHANGED notLockVars
  /\ task[t].pc = "idle" /\ task[t].held
  /\ marker' = [marker EXCEPT ![task[t].path] = RemoveFile(marker[task[t].path])]
  /\ task' = [task EXCEPT ![t] = [NoLock EXCEPT !.ret = "dropped"]]

\* The environment: something other than FileLock leaves a marker file at
\* the path (spec 4.1: a stale leftover marker, or a holder in another
\* process).  FileLock reads it with path.exists().
ForeignCreate(p) ==
  /\ ~marker[p]
  /\ marker' = [marker EXCEPT ![p] = TRUE]
  /\ UNCHANGED <<task, notLockVars>>

NextLock ==
  \/ \E t \in Tasks, p \in Paths : TryAcquireExists(t, p)
  \/ \E t \in Tasks : TryAcquireCreate(t)
  \/ \E t \in Tasks, p \in Paths : AcquireExists(t, p)
  \/ \E t \in Tasks : AcquireCreate(t)
  \/ \E t \in Tasks : Release(t)
  \/ \E t \in Tasks : ReleaseFailedDrop(t)
  \/ \E t \in Tasks : DropLock(t)
  \/ \E p \in Paths : ForeignCreate(p)

\* ============================================================ TcpPortIssuer

NoCall == [kind |-> "none", port |-> 0, from |-> 0, probe |-> {},
           afterFail |-> FALSE]

\* Iterator::next of Range<u16> through by_ref(): yields start and steps the
\* range itself past it; nothing once start >= end.
\* (RangeHasNextInclusive: the end taken as inclusive)
RangeHasNextInclusive(r) == r.start <= r.end
RangeHasNext(r) == r.start < r.end
RangeNext(r) == [start |-> r.start + 1, end |-> r.end]

\* line 27: self.range = (port + 1) .. self.range.end
\* (AdvanceTo: the same without the + 1)
AdvanceTo(port, r) == [start |-> port, end |-> r.end]
AdvancePast(port, r) == [start |-> port + 1, end |-> r.end]

\* get_port, lines 23-32.  avail is, for each port, whether the bind of
\* tcp_port_available succeeds at the moment that port is probed; a call
\* probes a port at most once, so this covers every change of the bindable
\* ports during the scan.
RECURSIVE ScanLoop(_, _)
ScanLoop(r, avail) ==
  IF ~RangeHasNext(r)
    THEN [kind |-> "err", port |-> 0, range |-> r]
    ELSE LET port == r.start
             r1 == RangeNext(r)
         IN IF port \in avail
              THEN [kind |-> "ok", port |-> port, range |-> AdvancePast(port, r1)]
              ELSE ScanLoop(r1, avail)

\* the same scan over a copy of the range (for port in self.range.clone()):
\* a failed scan leaves the cursor where it was
GetPortOverClone(r, avail) ==
  LET res == ScanLoop(r, avail)
  IN IF res.kind = "err" THEN [res EXCEPT !.range = r] ELSE res

GetPort(r, avail) == ScanLoop(r, avail)

InitPortVars ==
  /\ conf \in {[start |-> s, end |-> e] : s \in Ports, e \in Ports}
  /\ range = conf
  /\ last = NoCall
  /\ issued = {}
  /\ dup = FALSE
  /\ failed = FALSE

GetPortCall(avail) ==
  LET res == GetPort(range, avail)
  IN /\ range' = res.range
     /\ last' = [kind |-> res.kind, port |-> res.port, from |-> range.start,
                 probe |-> avail, afterFail |-> failed]
     /\ issued' = IF res.kind = "ok" THEN issued \cup {res.port} ELSE issued
     /\ dup' = (dup \/ (res.kind = "ok" /\ res.port \in issued))
     /\ failed' = (failed \/ res.kind = "err")
     /\ UNCHANGED <<conf, notPortVars>>

NextPort == \E avail \in SUBSET Ports : GetPortCall(avail)

\* =================================================================== piers

Ids == 1..MaxPiers
Slots == 1..MaxHandles
\* the names a keyfile is given and the names a ship reports for itself
Names == {"zod", "nec"}
NoName == "-"

\* lazy_static HTTP_PORT_RANGE / AMES_PORT_RANGE: the defaults' first ports
HttpBase == 8300
AmesBase == 4300

\* PierConfig, and config.json with the version as its string; id 0 stands
\* for "no config.json"
NoConfig == [id |-> 0, name |-> NoName, version |-> "-"]
\* runtime::Version::default(): the default of UrbitVersion
DefaultVersion == "UrbitV1_9"

\* impl Into<String> for UrbitVersion, which Display and Serialize go
\* through: the runtime-version string of config.json
VersionToString(v) ==
  CASE v = "UrbitV1_0" -> "v1.1"
    [] v = "UrbitV1_1" -> "v1.1"
    [] v = "UrbitV1_2" -> "v1.2"
    [] v = "UrbitV1_3" -> "v1.3"
    [] v = "UrbitV1_4" -> "v1.4"
    [] v = "UrbitV1_5" -> "v1.5"
    [] v = "UrbitV1_6" -> "v1.6"
    [] v = "UrbitV1_7" -> "v1.7"
    [] v = "UrbitV1_8" -> "v1.8"
    [] v = "UrbitV1_9" -> "v1.9"

\* impl TryFrom<&str> for UrbitVersion, which Deserialize goes through;
\* "invalid" is its Err
VersionFromStr(t) ==
  CASE t \in {"1.0", "v1.0"} -> "UrbitV1_0"
    [] t \in {"1.1", "v1.1"} -> "UrbitV1_1"
    [] t \in {"1.2", "v1.2"} -> "UrbitV1_2"
    [] t \in {"1.3", "v1.3"} -> "UrbitV1_3"
    [] t \in {"1.4", "v1.4"} -> "UrbitV1_4"
    [] t \in {"1.5", "v1.5"} -> "UrbitV1_5"
    [] t \in {"1.6", "v1.6"} -> "UrbitV1_6"
    [] t \in {"1.7", "v1.7"} -> "UrbitV1_7"
    [] t \in {"1.8", "v1.8"} -> "UrbitV1_8"
    [] t \in {"1.9", "v1.9"} -> "UrbitV1_9"
    [] OTHER -> "invalid"

\* serde_json::to_writer(config_file, &self.config), line 589: the
\* config.json a PierConfig is written as
WriteConfig(c) == [c EXCEPT !.version = VersionToString(c.version)]

\* load_config, lines 296-299: the PierConfig a config.json is read as;
\* NoConfig is its Err (the file is missing or does not parse)
ReadConfig(j) ==
  IF j = NoConfig \/ VersionFromStr(j.version) = "invalid" THEN NoConfig
  ELSE [j EXCEPT !.version = VersionFromStr(j.version)]

\* a pier directory: the files ship.rs keeps in it
NoDir == [exists |-> FALSE, lockfile |-> FALSE, config |-> NoConfig,
          pier |-> FALSE, ports |-> FALSE, keyfile |-> FALSE,
          archive |-> FALSE, unpack |-> FALSE]
NewDir == [NoDir EXCEPT !.exists = TRUE]

\* meta_path: HARBOR/dry_dock/<id> or HARBOR/port/<name>
DockPath(id) == [zone |-> "dry_dock", id |-> id, name |-> NoName]
PortPath(name) == [zone |-> "port", id |-> 0, name |-> name]
NoPath == [zone |-> "-", id |-> 0, name |-> NoName]

DirAt(f, m) ==
  IF m.zone = "port" THEN f.port[m.name]
  ELSE IF m.id \in DOMAIN f.dock THEN f.dock[m.id]
  ELSE NoDir
WriteDir(f, m, d) ==
  IF m.zone = "port" THEN [f EXCEPT !.port[m.name] = d]
  ELSE IF m.id \in DOMAIN f.dock THEN [f EXCEPT !.dock[m.id] = d]
  ELSE f

NoHandle == [kind |-> "free", call |-> "-", arg |-> "-", id |-> 0, name |-> NoName, config |-> NoConfig,
             meta |-> NoPath, lockAt |-> NoPath, dry_docked |-> FALSE,
             initialized |-> FALSE, comet |-> FALSE, proc |-> 0, http |-> 0,
             ames |-> 0, aliased |-> FALSE]

Live(h) == hnd[h].kind # "free"
FreeSlots == {h \in Slots : ~Live(h)}
\* the slot a new handle goes to
NewSlot == CHOOSE h \in FreeSlots : \A g \in FreeSlots : h <= g
\* the positions of a call in progress at which it has no FileLock yet,
\* and those at which it has a FileLock but no PierState yet
PreLock == {"new_dir", "comet_dir", "arch_dir", "ldd_dir", "lfp_dir"}
LockOnly == {"ldd_locked", "lfp_locked", "lfp_checked"}
\* slot h holds a FileLock; slot h holds a PierState (alone, inside a Ship
\* or inside a call in progress)
HasLock(h) == hnd[h].kind \notin {"free"} \cup PreLock
HasPier(h) == HasLock(h) /\ hnd[h].kind \notin LockOnly
\* the positions at which a constructor or a load has built its PierState
\* and not returned it yet
Building == {"new_locked", "new_opened", "arch_locked", "arch_made",
             "arch_opened", "arch_staged", "arch_unpack", "arch_extracted",
             "ldd_config", "lfp_config"}
\* slot h holds a handle that a constructor or a load returned: a PierState
\* alone, inside a Ship or inside the launch or release that took it
Returned(h) == HasPier(h) /\ hnd[h].kind \notin Building
\* some returned handle is bound to directory m
HeldDir(m) == \E h \in Slots : Returned(h) /\ hnd[h].meta = m

\* FileLock::try_acquire on the lockfile of a directory, start to end
TryAcquireFails(d) == d.lockfile
TryAcquired(d) == [d EXCEPT !.lockfile = FileCreateDiscarded(d.lockfile)]

\* Drop for FileLock on the path the lock was acquired at
DropFileLock(f, at) ==
  IF DirAt(f, at).exists
    THEN WriteDir(f, at, [DirAt(f, at) EXCEPT !.lockfile = RemoveFile(@)])
    ELSE f

\* Drop for PierState, lines 573-593: config.json is created or truncated
\* at meta_path and self.config written to it (an open error is logged);
\* the fields are dropped afterwards, the FileLock among them.
DropPierState(f, p) ==
  LET f1 == IF DirAt(f, p.meta).exists
              THEN WriteDir(f, p.meta,
                        [DirAt(f, p.meta) EXCEPT !.config = WriteConfig(p.config)])
              ELSE f
  IN DropFileLock(f1, p.lockAt)

InitPierVars ==
  /\ fs = [dock |-> [i \in Ids |-> NoDir], port |-> [n \in Names |-> NoDir]]
  /\ hnd = [h \in Slots |-> NoHandle]
  /\ nextId = 1
  /\ http = [start |-> HttpBase, end |-> HttpBase + IssuerSpan]
  /\ ames = [start |-> AmesBase, end |-> AmesBase + IssuerSpan]
  /\ procs = {}
  /\ opres = [op |-> "-", arg |-> "-", id |-> 0, result |-> "-", held |-> FALSE]

\* fs::create_dir: Ok iff nothing exists at the path
\* (CreateDirAll: as create_dir_all, Ok on an existing directory too)
CreateDirAll(exists) == TRUE
CreateDirOk(exists) == ~exists

\* the PierState the three constructors build once create_dir and
\* try_acquire are through
NewPier(id, name, comet) ==
  [NoHandle EXCEPT !.kind = "pier", !.id = id, !.name = name,
                   !.config = [id |-> id, name |-> name, version |-> DefaultVersion],
                   !.meta = DockPath(id), !.lockAt = DockPath(id),
                   !.dry_docked = TRUE, !.comet = comet]

\* Every async fn of ship.rs is modelled one await at a time, as the tasks
\* of the runtime interleave: an action is the completion of one awaited
\* filesystem, network or process call together with the code up to the
\* next await.  The slot of a call in progress carries the position of the
\* call in its kind and the locals of the call in the other fields; opres
\* is Pending until a call returns.
Pending == [op |-> "-", arg |-> "-", id |-> 0, result |-> "pending", held |-> FALSE]
Done(op, arg, r) == [op |-> op, arg |-> arg, id |-> 0, result |-> r, held |-> FALSE]
\* the same for load_from_dry_dock, whose argument is an identifier
DoneId(op, id, r) == [op |-> op, arg |-> "-", id |-> id, result |-> r, held |-> FALSE]

\* --------------------------------------------------------- new_from_keyfile
\* A slot of kind "new_dir" holds the call after create_dir, one of kind
\* "new_locked" the call after try_acquire, one of kind "new_opened" the
\* call after the keyfile is opened.

\* lines 305-310: Uuid::new_v4, create_dir of the staging directory
KeyfileCreateDir(name) ==
  LET m == DockPath(nextId)
  IN /\ FreeSlots # {} /\ nextId <= MaxPiers
     /\ nextId' = nextId + 1
     /\ UNCHANGED <<http, ames, procs, notPierVars>>
     /\ IF CreateDirOk(DirAt(fs, m).exists)
          THEN /\ fs' = WriteDir(fs, m, NewDir)
               /\ hnd' = [hnd EXCEPT ![NewSlot] =
                    [NewPier(nextId, name, FALSE) EXCEPT !.kind = "new_dir"]]
               /\ opres' = Pending
          ELSE /\ opres' = Done("new_from_keyfile", name, "io_error")
               /\ UNCHANGED <<fs, hnd>>

\* lines 312-332: try_acquire of the lockfile, the PierState built
KeyfileTryAcquire(h) ==
  LET m == hnd[h].meta
      d == DirAt(fs, m)
  IN /\ hnd[h].kind = "new_dir"
     /\ UNCHANGED <<nextId, http, ames, procs, notPierVars>>
     /\ IF TryAcquireFails(d)
          THEN /\ opres' = Done("new_from_keyfile", hnd[h].name, "lock_failed")
               /\ fs' = fs
               /\ hnd' = [hnd EXCEPT ![h] = NoHandle]
          ELSE /\ opres' = Pending
               /\ fs' = WriteDir(fs, m, TryAcquired(d))
               /\ hnd' = [hnd EXCEPT ![h].kind = "new_locked"]

\* lines 334-340: the keyfile opened with create_new; an error (the keyfile
\* is there already, or the directory is gone) drops the PierState
KeyfileOpen(h) ==
  LET m == hnd[h].meta
      d == DirAt(fs, m)
  IN /\ hnd[h].kind = "new_locked"
     /\ UNCHANGED <<nextId, http, ames, procs, notPierVars>>
     /\ IF d.keyfile \/ ~d.exists
          THEN /\ opres' = Done("new_from_keyfile", hnd[h].name, "io_error")
               /\ fs' = DropPierState(fs, hnd[h])
               /\ hnd' = [hnd EXCEPT ![h] = NoHandle]
          ELSE /\ opres' = Pending
               /\ fs' = WriteDir(fs, m, [d EXCEPT !.keyfile = TRUE])
               /\ hnd' = [hnd EXCEPT ![h].kind = "new_opened"]

\* lines 341-343: io::copy of key_infile into the open keyfile, and the
\* PierState returned.  readable: the reader the caller gave yields its
\* bytes; when it returns an error the `?` drops the PierState and the
\* keyfile stays as far as it was written.  The copy writes through the
\* open file, whatever became of the directory's path meanwhile.
KeyfileCopy(h, readable) ==
  /\ hnd[h].kind = "new_opened"
  /\ UNCHANGED <<nextId, http, ames, procs, notPierVars>>
  /\ IF readable
       THEN /\ opres' = Done("new_from_keyfile", hnd[h].name, "ok")
            /\ fs' = fs
            /\ hnd' = [hnd EXCEPT ![h].kind = "pier"]
       ELSE /\ opres' = Done("new_from_keyfile", hnd[h].name, "io_error")
            /\ fs' = DropPierState(fs, hnd[h])
            /\ hnd' = [hnd EXCEPT ![h] = NoHandle]

\* ---------------------------------------------------------------- new_comet
\* lines 440-445: Uuid::new_v4, create_dir of the staging directory
CometCreateDir ==
  LET m == DockPath(nextId)
  IN /\ FreeSlots # {} /\ nextId <= MaxPiers
     /\ nextId' = nextId + 1
     /\ UNCHANGED <<http, ames, procs, notPierVars>>
     /\ IF CreateDirOk(DirAt(fs, m).exists)
          THEN /\ fs' = WriteDir(fs, m, NewDir)
               /\ hnd' = [hnd EXCEPT ![NewSlot] =
                    [NewPier(nextId, NoName, TRUE) EXCEPT !.kind = "comet_dir"]]
               /\ opres' = Pending
          ELSE /\ opres' = Done("new_comet", "-", "io_error")
               /\ UNCHANGED <<fs, hnd>>

\* lines 447-469: try_acquire of the lockfile, the PierState built and
\* returned
CometTryAcquire(h) ==
  LET m == hnd[h].meta
      d == DirAt(fs, m)
  IN /\ hnd[h].kind = "comet_dir"
     /\ UNCHANGED <<nextId, http, ames, procs, notPierVars>>
     /\ IF TryAcquireFails(d)
          THEN /\ opres' = Done("new_comet", "-", "lock_failed")
               /\ fs' = fs
               /\ hnd' = [hnd EXCEPT ![h] = NoHandle]
          ELSE /\ opres' = Done("new_comet", "-", "ok")
               /\ fs' = WriteDir(fs, m, TryAcquired(d))
               /\ hnd' = [hnd EXCEPT ![h].kind = "pier"]

\* ----------------------------------------------------- new_from_pier_archive
\* the byte stream handed to new_from_pier_archive: reading it fails, it is
\* no archive libarchive decodes, an entry is refused by the extract
\* options, or it unpacks to a tree without or with a ship directory
Archives == {"unreadable", "undecodable", "rejected", "no_ship", "ship"}

\* lines 351-356: Uuid::new_v4, create_dir of the staging directory
ArchiveCreateDir(arc) ==
  LET m == DockPath(nextId)
  IN /\ FreeSlots # {} /\ nextId <= MaxPiers
     /\ nextId' = nextId + 1
     /\ UNCHANGED <<http, ames, procs, notPierVars>>
     /\ IF CreateDirOk(DirAt(fs, m).exists)
          THEN /\ fs' = WriteDir(fs, m, NewDir)
               /\ hnd' = [hnd EXCEPT ![NewSlot] =
                    [NewPier(nextId, NoName, FALSE) EXCEPT !.kind = "arch_dir",
                                                         !.arg = arc]]
               /\ opres' = Pending
          ELSE /\ opres' = Done("new_from_pier_archive", arc, "io_error")
               /\ UNCHANGED <<fs, hnd>>

\* lines 358-382: try_acquire of the lockfile, the PierState built and
\* handed to new_from_pier_archive_inner
ArchiveTryAcquire(h) ==
  LET m == hnd[h].meta
      d == DirAt(fs, m)
  IN /\ hnd[h].kind = "arch_dir"
     /\ UNCHANGED <<nextId, http, ames, procs, notPierVars>>
     /\ IF TryAcquireFails(d)
          THEN /\ opres' = Done("new_from_pier_archive", hnd[h].arg, "lock_failed")
               /\ fs' = fs
               /\ hnd' = [hnd EXCEPT ![h] = NoHandle]
          ELSE /\ opres' = Pending
               /\ fs' = WriteDir(fs, m, TryAcquired(d))
               /\ hnd' = [hnd EXCEPT ![h].kind = "arch_locked"]

\* the positions inside new_from_pier_archive_inner: before its create_dir
\* (line 406), after it, after the archive file is opened (line 414),
\* after it is written (line 415), after the unpack directory is made
\* (line 417), after extract_file (line 425)
ArchiveInnerKinds ==
  {"arch_locked", "arch_made", "arch_opened", "arch_staged", "arch_unpack",
   "arch_extracted"}

\* new_from_pier_archive_inner, lines 398-435, on the PierState p at
\* position p.kind over the filesystem f: the next awaited call.  The
\* result is "pending" with the next position, or the error the call
\* returns; every error drops p, which the function owns.  After the
\* archive file is removed (line 427) find_extracted_pier (lines 173-175)
\* is todo!(), a panic, which unwinds through the function and drops p too.
NewFromPierArchiveInner(f, p) ==
  LET m == p.meta
      d == DirAt(f, m)
      fail(r, f1) == [result |-> r, at |-> "free", fs |-> DropPierState(f1, p)]
      next(k, d1) == [result |-> "pending", at |-> k, fs |-> WriteDir(f, m, d1)]
  IN CASE p.kind = "arch_locked" ->                              \* line 406
            IF CreateDirOk(d.exists) THEN next("arch_made", NewDir)
            ELSE fail("io_error", f)
       [] p.kind = "arch_made" ->                                \* lines 408-414
            IF ~d.exists \/ d.archive THEN fail("io_error", f)
            ELSE next("arch_opened", [d EXCEPT !.archive = TRUE])
       [] p.kind = "arch_opened" ->                              \* line 415
            IF p.arg = "unreadable" THEN fail("io_error", f)
            ELSE next("arch_staged", d)
       [] p.kind = "arch_staged" ->                              \* line 417
            IF ~d.exists \/ d.unpack THEN fail("io_error", f)
            ELSE next("arch_unpack", [d EXCEPT !.unpack = TRUE])
       [] p.kind = "arch_unpack" ->                              \* lines 419-425
            IF ~d.exists \/ ~d.archive \/ ~d.unpack
                 \/ p.arg \in {"undecodable", "rejected"}
              THEN fail("extract_error", f)
            ELSE next("arch_extracted", d)
       [] p.kind = "arch_extracted" ->                           \* lines 427-429
            IF ~d.exists \/ ~d.archive THEN fail("io_error", f)
            ELSE fail("panic", WriteDir(f, m, [d EXCEPT !.archive = FALSE]))

\* one awaited call of new_from_pier_archive_inner.  The `?` of line 382
\* returns its error; lines 384-393 (remove the scratch files, initialized =
\* true) run only after its Ok, which it never returns.
ArchiveInner(h) ==
  LET r == NewFromPierArchiveInner(fs, hnd[h])
  IN /\ hnd[h].kind \in ArchiveInnerKinds
     /\ UNCHANGED <<nextId, http, ames, procs, notPierVars>>
     /\ fs' = r.fs
     /\ IF r.result = "pending"
          THEN /\ hnd' = [hnd EXCEPT ![h].kind = r.at]
               /\ opres' = Pending
          ELSE /\ hnd' = [hnd EXCEPT ![h] = NoHandle]
               /\ opres' = Done("new_from_pier_archive", hnd[h].arg, r.result)

\* ------------------------------------------------------- load_from_dry_dock
\* Path::is_dir, lines 213 and 262 (IsDirAny: the check left out)
IsDirAny(d) == TRUE
IsDir(d) == d.exists

\* lines 259-264: is_dir of HARBOR/dry_dock/<id>
LoadDockIsDir(id) ==
  LET m == DockPath(id)
  IN /\ FreeSlots # {}
     /\ UNCHANGED <<fs, nextId, http, ames, procs, notPierVars>>
     /\ IF ~IsDir(DirAt(fs, m))
          THEN /\ opres' = DoneId("load_from_dry_dock", id, "not_found")
               /\ hnd' = hnd
          ELSE /\ opres' = Pending
               /\ hnd' = [hnd EXCEPT ![NewSlot] =
                    [NoHandle EXCEPT !.kind = "ldd_dir", !.id = id, !.meta = m]]

\* lines 266-269: try_acquire of the lockfile
LoadDockTryAcquire(h) ==
  LET m == hnd[h].meta
      d == DirAt(fs, m)
  IN /\ hnd[h].kind = "ldd_dir"
     /\ UNCHANGED <<nextId, http, ames, procs, notPierVars>>
     /\ IF TryAcquireFails(d)
          THEN /\ opres' = [DoneId("load_from_dry_dock", hnd[h].id, "already_locked")
                              EXCEPT !.held = HeldDir(m)]
               /\ fs' = fs
               /\ hnd' = [hnd EXCEPT ![h] = NoHandle]
          ELSE /\ opres' = Pending
               /\ fs' = WriteDir(fs, m, TryAcquired(d))
               /\ hnd' = [hnd EXCEPT ![h].kind = "ldd_locked", ![h].lockAt = m,
                                     ![h].aliased = HeldDir(m)]

\* lines 271-288: load_config and the id of config.json against the
\* directory's; then the PierState is built.  Up to there only the FileLock
\* exists and is dropped by an error.
LoadDockConfig(h) ==
  LET m == hnd[h].meta
      config == ReadConfig(DirAt(fs, m).config)
  IN /\ hnd[h].kind = "ldd_locked"
     /\ UNCHANGED <<nextId, http, ames, procs, notPierVars>>
     /\ IF config = NoConfig \/ config.id # hnd[h].id
          THEN /\ opres' = [DoneId("load_from_dry_dock", hnd[h].id, "config_error")
                              EXCEPT !.held = hnd[h].aliased]
               /\ fs' = DropFileLock(fs, hnd[h].lockAt)
               /\ hnd' = [hnd EXCEPT ![h] = NoHandle]
          ELSE /\ opres' = Pending
               /\ fs' = fs
               /\ hnd' = [hnd EXCEPT ![h].kind = "ldd_config",
                                     ![h].name = config.name,
                                     ![h].config = config,
                                     ![h].dry_docked = TRUE]

\* lines 290-293: initialized = pier_path().exists(), and the PierState is
\* returned
LoadDockPier(h) ==
  /\ hnd[h].kind = "ldd_config"
  /\ UNCHANGED <<fs, nextId, http, ames, procs, notPierVars>>
  /\ opres' = [DoneId("load_from_dry_dock", hnd[h].id, "ok")
                 EXCEPT !.held = hnd[h].aliased]
  /\ hnd' = [hnd EXCEPT ![h].kind = "pier",
                        ![h].initialized = DirAt(fs, hnd[h].meta).pier]

\* ----------------------------------------------------------- load_from_port
\* line 232: the @p of config.json against the directory name
ConfigNameOk(config_name, name) == config_name = name

\* lines 210-215: is_dir of HARBOR/port/<name>
LoadPortIsDir(name) ==
  LET m == PortPath(name)
  IN /\ FreeSlots # {}
     /\ UNCHANGED <<fs, nextId, http, ames, procs, notPierVars>>
     /\ IF ~IsDir(DirAt(fs, m))
          THEN /\ opres' = Done("load_from_port", name, "not_found")
               /\ hnd' = hnd
          ELSE /\ opres' = Pending
               /\ hnd' = [hnd EXCEPT ![NewSlot] =
                    [NoHandle EXCEPT !.kind = "lfp_dir", !.name = name, !.meta = m]]

\* lines 217-223: try_acquire of the lockfile
LoadPortTryAcquire(h) ==
  LET m == hnd[h].meta
      d == DirAt(fs, m)
  IN /\ hnd[h].kind = "lfp_dir"
     /\ UNCHANGED <<nextId, http, ames, procs, notPierVars>>
     /\ IF TryAcquireFails(d)
          THEN /\ opres' = [Done("load_from_port", hnd[h].name, "already_locked")
                              EXCEPT !.held = HeldDir(m)]
               /\ fs' = fs
               /\ hnd' = [hnd EXCEPT ![h] = NoHandle]
          ELSE /\ opres' = Pending
               /\ fs' = WriteDir(fs, m, TryAcquired(d))
               /\ hnd' = [hnd EXCEPT ![h].kind = "lfp_locked", ![h].lockAt = m,
                                     ![h].aliased = HeldDir(m)]

\* lines 225-236: the first load_config and the name check.  load_config
\* fails on a config.json that is missing or does not parse (lines 297-298);
\* a config without a name is refused as an uninitialized pier (line 229),
\* one with another name as a mismatch (line 233).  No PierState exists
\* yet and only the FileLock is dropped.
LoadPortConfig(h) ==
  LET m == hnd[h].meta
      config == ReadConfig(DirAt(fs, m).config)
      out(r) == [Done("load_from_port", hnd[h].name, r)
                   EXCEPT !.held = hnd[h].aliased]
  IN /\ hnd[h].kind = "lfp_locked"
     /\ UNCHANGED <<nextId, http, ames, procs, notPierVars>>
     /\ IF config = NoConfig \/ config.name = NoName
             \/ ~ConfigNameOk(config.name, hnd[h].name)
          THEN /\ opres' = out(IF config # NoConfig /\ config.name = NoName
                                 THEN "uninitialized" ELSE "config_error")
               /\ fs' = DropFileLock(fs, hnd[h].lockAt)
               /\ hnd' = [hnd EXCEPT ![h] = NoHandle]
          ELSE /\ opres' = Pending
               /\ fs' = fs
               /\ hnd' = [hnd EXCEPT ![h].kind = "lfp_checked"]

\* lines 238-249: config.json is read a second time and the PierState built
\* from this second reading, with the name the caller gave
LoadPortConfigAgain(h) ==
  LET m == hnd[h].meta
      config == ReadConfig(DirAt(fs, m).config)
  IN /\ hnd[h].kind = "lfp_checked"
     /\ UNCHANGED <<nextId, http, ames, procs, notPierVars>>
     /\ IF config = NoConfig
          THEN /\ opres' = [Done("load_from_port", hnd[h].name, "config_error")
                              EXCEPT !.held = hnd[h].aliased]
               /\ fs' = DropFileLock(fs, hnd[h].lockAt)
               /\ hnd' = [hnd EXCEPT ![h] = NoHandle]
          ELSE /\ opres' = Pending
               /\ fs' = fs
               /\ hnd' = [hnd EXCEPT ![h].kind = "lfp_config",
                                     ![h].id = config.id,
                                     ![h].config = config,
                                     ![h].initialized = TRUE]

\* lines 252-256: pier_path().exists(); a directory without pier/ is
\* refused and the PierState dropped
LoadPortPier(h) ==
  LET out(r) == [Done("load_from_port", hnd[h].name, r)
                   EXCEPT !.held = hnd[h].aliased]
  IN /\ hnd[h].kind = "lfp_config"
     /\ UNCHANGED <<nextId, http, ames, procs, notPierVars>>
     /\ IF ~DirAt(fs, hnd[h].meta).pier
          THEN /\ opres' = out("uninitialized")
               /\ fs' = DropPierState(fs, hnd[h])
               /\ hnd' = [hnd EXCEPT ![h] = NoHandle]
          ELSE /\ opres' = out("ok")
               /\ fs' = fs
               /\ hnd' = [hnd EXCEPT ![h].kind = "pier"]

\* ------------------------------------------------------------------- drops
\* a PierState goes out of scope: Drop for PierState, then Drop for FileLock
DropPier(h) ==
  /\ hnd[h].kind = "pier"
  /\ fs' = DropPierState(fs, hnd[h])
  /\ hnd' = [hnd EXCEPT ![h] = NoHandle]
  /\ opres' = Done("drop", "-", "ok")
  /\ UNCHANGED <<nextId, http, ames, procs, notPierVars>>

\* a Ship goes out of scope: its PierState is dropped, its process::Child is
\* dropped without being killed
DropShip(h) ==
  /\ hnd[h].kind = "ship"
  /\ fs' = DropPierState(fs, hnd[h])
  /\ hnd' = [hnd EXCEPT ![h] = NoHandle]
  /\ opres' = Done("drop_ship", "-", "ok")
  /\ UNCHANGED <<nextId, http, ames, procs, notPierVars>>

\* ------------------------------------------------------------------ launch
\* the half-open range an issuer of InitPierVars hands out ports from
HttpPorts == HttpBase..(HttpBase + IssuerSpan - 1)
AmesPorts == AmesBase..(AmesBase + IssuerSpan - 1)

\* what the started urbit process has written into its pier directory when
\* launch goes on: nothing yet, the data directory pier/, or the data
\* directory with .http.ports and its loopback line; "exec_error": the
\* runtime's exec fails and no process is started
Boots == {"exec_error", "nothing", "pier", "ports"}
ProcessWrote(d, boot) ==
  IF boot = "nothing" THEN d
  ELSE IF boot = "pier" THEN [d EXCEPT !.pier = TRUE]
  ELSE [d EXCEPT !.pier = TRUE, !.ports = TRUE]

\* lines 544-565: the start mode launch selects
StartMode(p) ==
  IF p.initialized THEN "resume"
  ELSE IF p.comet THEN "comet"
  ELSE IF p.name = NoName THEN "panic"       \* self.name.as_ref().unwrap()
  ELSE "keyfile"

\* line 567: self.initialized = true (MarkNothing: the assignment left out)
MarkNothing(p) == p
MarkInitialized(p) == [p EXCEPT !.initialized = TRUE]

\* A launch is called by the program (call = "launch") or by
\* release_from_dry_dock, line 519 (call = "release"); the slot of the
\* PierState becomes the slot of the call.  Every failure drops the
\* PierState, which launch owns.

\* the positions of a launch or release_from_dry_dock call in progress
LaunchKinds == {"l_ames", "l_http", "l_exec", "r_ship", "r_named", "r_killed"}

\* launch (lines 535-539) and release_from_dry_dock (lines 514-518) take
\* both issuers as &mut TcpPortIssuer: the call in progress borrows them
\* exclusively until it returns, and no other call on these issuers can
\* start before
IssuersBorrowed == \E g \in Slots : hnd[g].kind \in LaunchKinds

\* line 541: ames_port_issuer.get_port().  avail: the ports whose bind
\* succeeds when get_port probes them.
LaunchAmes(h, call, avail) ==
  LET a == GetPort(ames, avail)
  IN /\ hnd[h].kind = "pier" /\ ~IssuersBorrowed
     /\ ames' = a.range
     /\ UNCHANGED <<nextId, http, procs, notPierVars>>
     /\ IF a.kind = "err"
          THEN /\ opres' = Done(call, "-", "no_ports")
               /\ fs' = DropPierState(fs, hnd[h])
               /\ hnd' = [hnd EXCEPT ![h] = NoHandle]
          ELSE /\ opres' = Pending
               /\ fs' = fs
               /\ hnd' = [hnd EXCEPT ![h].kind = "l_ames", ![h].call = call,
                                     ![h].ames = a.port]

\* lines 542-565: http_port_issuer.get_port(), then the start mode is
\* selected and the runtime's exec called
LaunchHttp(h, avail) ==
  LET b == GetPort(http, avail)
      fail(r) == /\ opres' = Done(hnd[h].call, "-", r)
                 /\ fs' = DropPierState(fs, hnd[h])
                 /\ hnd' = [hnd EXCEPT ![h] = NoHandle]
  IN /\ hnd[h].kind = "l_ames"
     /\ http' = b.range
     /\ UNCHANGED <<nextId, ames, procs, notPierVars>>
     /\ IF b.kind = "err" THEN fail("no_ports")
        ELSE IF StartMode(hnd[h]) = "panic" THEN fail("panic")
        ELSE /\ opres' = Pending
             /\ fs' = fs
             /\ hnd' = [hnd EXCEPT ![h].kind = "l_http", ![h].http = b.port]

\* lines 545-569: exec returns the process::Child or its error; then
\* initialized = true and Ship::new is called with (ames_port, http_port)
LaunchExec(h, boot) ==
  LET p == hnd[h]
      d == DirAt(fs, p.meta)
      proc == [pid |-> p.ames, dir |-> p.meta, http |-> p.http,
               ames |-> p.ames, mode |-> StartMode(p)]
  IN /\ p.kind = "l_http"
     /\ UNCHANGED <<nextId, http, ames, notPierVars>>
     /\ IF boot = "exec_error"
          THEN /\ opres' = Done(p.call, "-", "exec_error")
               /\ fs' = DropPierState(fs, p)
               /\ hnd' = [hnd EXCEPT ![h] = NoHandle]
               /\ procs' = procs
          ELSE /\ opres' = Pending
               /\ procs' = procs \cup {proc}
               /\ fs' = IF d.exists THEN WriteDir(fs, p.meta, ProcessWrote(d, boot))
                        ELSE fs
               /\ hnd' = [hnd EXCEPT ![h] =
                    [MarkInitialized(p) EXCEPT !.kind = "l_exec", !.proc = proc.pid]]

\* Ship::new, lines 604-620: pier/.http.ports is read and its loopback line
\* decoded.  On an error the PierState is dropped, and so is the
\* process::Child, which leaves the process running.  Line 569 passes
\* (ames_port, http_port) for Ship::new's (http_port, ames_port).
LaunchRead(h) ==
  LET p == hnd[h]
      d == DirAt(fs, p.meta)
  IN /\ p.kind = "l_exec"
     /\ UNCHANGED <<nextId, http, ames, procs, notPierVars>>
     /\ IF ~(d.exists /\ d.pier /\ d.ports)
          THEN /\ opres' = Done(p.call, "-", "ports_descriptor")
               /\ fs' = DropPierState(fs, p)
               /\ hnd' = [hnd EXCEPT ![h] = NoHandle]
          ELSE /\ opres' = IF p.call = "launch" THEN Done("launch", "-", "ok")
                           ELSE Pending
               /\ fs' = fs
               /\ hnd' = [hnd EXCEPT ![h] =
                    [p EXCEPT !.kind = IF p.call = "launch" THEN "ship" ELSE "r_ship",
                              !.call = IF p.call = "launch" THEN "-" ELSE p.call,
                              !.http = p.ames, !.ames = p.http]]

\* ---------------------------------------------------------------- shutdown
\* the processes left when the one with this pid is gone
Killed(ps, pid) == {q \in ps : q.pid # pid}

\* the PierState inside a Ship whose process is gone
PierOf(s) == [s EXCEPT !.kind = "pier", !.proc = 0, !.http = 0, !.ames = 0]

\* Ship::shutdown, lines 622-625: proc.kill().await?, then the PierState.
\* A kill that fails (the process is gone already) drops the Ship with its
\* PierState.
Shutdown(h, killed) ==
  /\ hnd[h].kind = "ship"
  /\ procs' = Killed(procs, hnd[h].proc)
  /\ UNCHANGED <<nextId, http, ames, notPierVars>>
  /\ IF killed
       THEN /\ opres' = Done("shutdown", "-", "ok")
            /\ fs' = fs
            /\ hnd' = [hnd EXCEPT ![h] = PierOf(hnd[h])]
       ELSE /\ opres' = Done("shutdown", "-", "kill_error")
            /\ fs' = DropPierState(fs, hnd[h])
            /\ hnd' = [hnd EXCEPT ![h] = NoHandle]

\* ---------------------------------------------------- release_from_dry_dock
\* fs::rename of a pier directory: an error if the source is missing or the
\* target is another directory that is not empty; an empty directory at the
\* target is replaced
EmptyDir(d) == d = NewDir
RenameOk(f, old, new) ==
  /\ DirAt(f, old).exists
  /\ new = old \/ ~DirAt(f, new).exists \/ EmptyDir(DirAt(f, new))
RenameDir(f, old, new) ==
  IF new = old THEN f
  ELSE WriteDir(WriteDir(f, new, DirAt(f, old)), old, NoDir)

\* release_from_dry_dock, lines 514-533, starts with the launch above
\* (LaunchAmes to LaunchRead with call = "release"), which leaves the Ship
\* in a slot of kind "r_ship".

\* line 520: dojo("our"), the name the ship answers (NoName: the control
\* call fails and the Ship is dropped, its process left running); line 521
\* calls shutdown
ReleaseDojo(h, our) ==
  /\ hnd[h].kind = "r_ship"
  /\ UNCHANGED <<nextId, http, ames, procs, notPierVars>>
  /\ IF our = NoName
       THEN /\ opres' = Done("release_from_dry_dock", "-", "dojo_error")
            /\ fs' = DropPierState(fs, hnd[h])
            /\ hnd' = [hnd EXCEPT ![h] = NoHandle]
       ELSE /\ opres' = Pending
            /\ fs' = fs
            /\ hnd' = [hnd EXCEPT ![h].kind = "r_named", ![h].name = our]

\* lines 521-527: the kill of shutdown; then HARBOR/port/<name> is made the
\* meta_path and the rename called
ReleaseKill(h, killed) ==
  /\ hnd[h].kind = "r_named"
  /\ procs' = Killed(procs, hnd[h].proc)
  /\ UNCHANGED <<nextId, http, ames, notPierVars>>
  /\ IF killed
       THEN /\ opres' = Pending
            /\ fs' = fs
            /\ hnd' = [hnd EXCEPT ![h] = [PierOf(hnd[h]) EXCEPT !.kind = "r_killed"]]
       ELSE /\ opres' = Done("release_from_dry_dock", "-", "kill_error")
            /\ fs' = DropPierState(fs, hnd[h])
            /\ hnd' = [hnd EXCEPT ![h] = NoHandle]

\* lines 529-532: the rename of the directory to HARBOR/port/<name>.
\* meta_path was assigned before it (line 527), so a PierState dropped by
\* the `?` writes its config.json to the port path.
ReleaseRename(h) ==
  LET old == hnd[h].meta
      moved == [hnd[h] EXCEPT !.meta = PortPath(hnd[h].name)]
  IN /\ hnd[h].kind = "r_killed"
     /\ UNCHANGED <<nextId, http, ames, procs, notPierVars>>
     /\ IF RenameOk(fs, old, moved.meta)
          THEN /\ opres' = Done("release_from_dry_dock", "-", "ok")
               /\ fs' = RenameDir(fs, old, moved.meta)
               /\ hnd' = [hnd EXCEPT ![h] =
                    [moved EXCEPT !.kind = "pier", !.call = "-",
                                  !.dry_docked = FALSE]]
          ELSE /\ opres' = Done("release_from_dry_dock", "-", "rename_error")
               /\ fs' = DropPierState(fs, moved)
               /\ hnd' = [hnd EXCEPT ![h] = NoHandle]


\* ------------------------------------------------------------ what can happen
\* the two callers of launch
Calls == {"launch", "release_from_dry_dock"}

\* an identifier Uuid::new_v4 never handed out
StrayId == MaxPiers + 1

\* new_from_keyfile, with loads of the dry dock and drops in between
NextKeyfile ==
  \/ \E n \in Names : KeyfileCreateDir(n)
  \/ \E h \in Slots : KeyfileTryAcquire(h)
  \/ \E h \in Slots : KeyfileOpen(h)
  \/ \E h \in Slots, readable \in BOOLEAN : KeyfileCopy(h, readable)
  \/ \E i \in Ids \cup {StrayId} : LoadDockIsDir(i)
  \/ \E h \in Slots : LoadDockTryAcquire(h)
  \/ \E h \in Slots : LoadDockConfig(h)
  \/ \E h \in Slots : LoadDockPier(h)
  \/ \E h \in Slots : DropPier(h)

\* the constructors, and what they leave in the dry dock loaded and dropped
NextDock ==
  \/ \E n \in Names : KeyfileCreateDir(n)
  \/ \E h \in Slots : KeyfileTryAcquire(h)
  \/ \E h \in Slots : KeyfileOpen(h)
  \/ \E h \in Slots, readable \in BOOLEAN : KeyfileCopy(h, readable)
  \/ CometCreateDir
  \/ \E h \in Slots : CometTryAcquire(h)
  \/ \E arc \in Archives : ArchiveCreateDir(arc)
  \/ \E h \in Slots : ArchiveTryAcquire(h)
  \/ \E h \in Slots : ArchiveInner(h)
  \/ \E i \in Ids \cup {StrayId} : LoadDockIsDir(i)
  \/ \E h \in Slots : LoadDockTryAcquire(h)
  \/ \E h \in Slots : LoadDockConfig(h)
  \/ \E h \in Slots : LoadDockPier(h)
  \/ \E h \in Slots : DropPier(h)

\* keyfile piers and comets created, dropped, loaded from the dry dock and
\* launched: every directory here was made by one of these two constructors
NextBoot ==
  \/ \E n \in Names : KeyfileCreateDir(n)
  \/ \E h \in Slots : KeyfileTryAcquire(h)
  \/ \E h \in Slots : KeyfileOpen(h)
  \/ \E h \in Slots, readable \in BOOLEAN : KeyfileCopy(h, readable)
  \/ CometCreateDir
  \/ \E h \in Slots : CometTryAcquire(h)
  \/ \E i \in Ids : LoadDockIsDir(i)
  \/ \E h \in Slots : LoadDockTryAcquire(h)
  \/ \E h \in Slots : LoadDockConfig(h)
  \/ \E h \in Slots : LoadDockPier(h)
  \/ \E h \in Slots, avail \in SUBSET AmesPorts : LaunchAmes(h, "launch", avail)
  \/ \E h \in Slots, avail \in SUBSET HttpPorts : LaunchHttp(h, avail)
  \/ \E h \in Slots, boot \in Boots : LaunchExec(h, boot)
  \/ \E h \in Slots : LaunchRead(h)
  \/ \E h \in Slots : DropPier(h)

\* keyfile piers launched, their ships shut down or dropped, and the dry
\* dock loaded meanwhile
NextShip ==
  \/ \E n \in Names : KeyfileCreateDir(n)
  \/ \E h \in Slots : KeyfileTryAcquire(h)
  \/ \E h \in Slots : KeyfileOpen(h)
  \/ \E h \in Slots, readable \in BOOLEAN : KeyfileCopy(h, readable)
  \/ \E i \in Ids : LoadDockIsDir(i)
  \/ \E h \in Slots : LoadDockTryAcquire(h)
  \/ \E h \in Slots : LoadDockConfig(h)
  \/ \E h \in Slots : LoadDockPier(h)
  \/ \E h \in Slots, avail \in SUBSET AmesPorts : LaunchAmes(h, "launch", avail)
  \/ \E h \in Slots, avail \in SUBSET HttpPorts : LaunchHttp(h, avail)
  \/ \E h \in Slots, boot \in Boots : LaunchExec(h, boot)
  \/ \E h \in Slots : LaunchRead(h)
  \/ \E h \in Slots, killed \in BOOLEAN : Shutdown(h, killed)
  \/ \E h \in Slots : DropShip(h)
  \/ \E h \in Slots : DropPier(h)

\* keyfile piers and comets made in the dry dock, released to the port and
\* loaded from there
NextPromote ==
  \/ \E n \in Names : KeyfileCreateDir(n)
  \/ \E h \in Slots : KeyfileTryAcquire(h)
  \/ \E h \in Slots : KeyfileOpen(h)
  \/ \E h \in Slots, readable \in BOOLEAN : KeyfileCopy(h, readable)
  \/ CometCreateDir
  \/ \E h \in Slots : CometTryAcquire(h)
  \/ \E h \in Slots, avail \in SUBSET AmesPorts :
       LaunchAmes(h, "release_from_dry_dock", avail)
  \/ \E h \in Slots, avail \in SUBSET HttpPorts : LaunchHttp(h, avail)
  \/ \E h \in Slots, boot \in Boots : LaunchExec(h, boot)
  \/ \E h \in Slots : LaunchRead(h)
  \/ \E h \in Slots, our \in Names \cup {NoName} : ReleaseDojo(h, our)
  \/ \E h \in Slots, killed \in BOOLEAN : ReleaseKill(h, killed)
  \/ \E h \in Slots : ReleaseRename(h)
  \/ \E n \in Names : LoadPortIsDir(n)
  \/ \E h \in Slots : LoadPortTryAcquire(h)
  \/ \E h \in Slots : LoadPortConfig(h)
  \/ \E h \in Slots : LoadPortConfigAgain(h)
  \/ \E h \in Slots : LoadPortPier(h)
  \/ \E h \in Slots : DropPier(h)

\* piers made from the keyfile of zod through their life, with every port
\* free, ships that boot, answer zod and are killed: launched, shut
\* down, released to the port, dropped and loaded there again
NextLife ==
  \/ KeyfileCreateDir("zod")
  \/ \E h \in Slots : KeyfileTryAcquire(h)
  \/ \E h \in Slots : KeyfileOpen(h)
  \/ \E h \in Slots, readable \in BOOLEAN : KeyfileCopy(h, readable)
  \/ \E h \in Slots, c \in Calls : LaunchAmes(h, c, AmesPorts)
  \/ \E h \in Slots : LaunchHttp(h, HttpPorts)
  \/ \E h \in Slots : LaunchExec(h, "ports")
  \/ \E h \in Slots : LaunchRead(h)
  \/ \E h \in Slots : Shutdown(h, TRUE)
  \/ \E h \in Slots : ReleaseDojo(h, "zod")
  \/ \E h \in Slots : ReleaseKill(h, TRUE)
  \/ \E h \in Slots : ReleaseRename(h)
  \/ LoadPortIsDir("zod")
  \/ \E h \in Slots : LoadPortTryAcquire(h)
  \/ \E h \in Slots : LoadPortConfig(h)
  \/ \E h \in Slots : LoadPortConfigAgain(h)
  \/ \E h \in Slots : LoadPortPier(h)
  \/ \E h \in Slots : DropPier(h)

\* the runtime-version strings found in the config.json files of a harbor
\* that earlier runs left: with and without the v, and one no version has
VersionTexts == {"v1.0", "1.1", "v1.9", "v2.0"}

\* a harbor whose dry dock holds directories from earlier runs, each with a
\* config.json of its own identifier, any name and any version string
InitConfigVars ==
  /\ \E left \in [Ids -> {NoConfig} \cup
                 [id : {0}, name : Names \cup {NoName}, version : VersionTexts]] :
       fs = [dock |-> [i \in Ids |->
                         IF left[i] = NoConfig THEN NoDir
                         ELSE [NewDir EXCEPT !.config = [left[i] EXCEPT !.id = i]]],
             port |-> [n \in Names |-> NoDir]]
  /\ hnd = [h \in Slots |-> NoHandle]
  /\ nextId = MaxPiers + 1
  /\ http = [start |-> HttpBase, end |-> HttpBase + IssuerSpan]
  /\ ames = [start |-> AmesBase, end |-> AmesBase + IssuerSpan]
  /\ procs = {}
  /\ opres = [op |-> "-", arg |-> "-", id |-> 0, result |-> "-", held |-> FALSE]

\* the piers of such a harbor loaded and dropped
NextConfig ==
  \/ \E i \in Ids : LoadDockIsDir(i)
  \/ \E h \in Slots : LoadDockTryAcquire(h)
  \/ \E h \in Slots : LoadDockConfig(h)
  \/ \E h \in Slots : LoadDockPier(h)
  \/ \E h \in Slots : DropPier(h)

\* every operation of PierState and Ship, in every environment
NextPier ==
  \/ \E n \in Names : KeyfileCreateDir(n)
  \/ \E h \in Slots : KeyfileTryAcquire(h)
  \/ \E h \in Slots : KeyfileOpen(h)
  \/ \E h \in Slots, readable \in BOOLEAN : KeyfileCopy(h, readable)
  \/ CometCreateDir
  \/ \E h \in Slots : CometTryAcquire(h)
  \/ \E arc \in Archives : ArchiveCreateDir(arc)
  \/ \E h \in Slots : ArchiveTryAcquire(h)
  \/ \E h \in Slots : ArchiveInner(h)
  \/ \E i \in Ids : LoadDockIsDir(i)
  \/ \E h \in Slots : LoadDockTryAcquire(h)
  \/ \E h \in Slots : LoadDockConfig(h)
  \/ \E h \in Slots : LoadDockPier(h)
  \/ \E n \in Names : LoadPortIsDir(n)
  \/ \E h \in Slots : LoadPortTryAcquire(h)
  \/ \E h \in Slots : LoadPortConfig(h)
  \/ \E h \in Slots : LoadPortConfigAgain(h)
  \/ \E h \in Slots : LoadPortPier(h)
  \/ \E h \in Slots : DropPier(h)
  \/ \E h \in Slots : DropShip(h)
  \/ \E h \in Slots, c \in Calls, avail \in SUBSET AmesPorts : LaunchAmes(h, c, avail)
  \/ \E h \in Slots, avail \in SUBSET HttpPorts : LaunchHttp(h, avail)
  \/ \E h \in Slots, boot \in Boots : LaunchExec(h, boot)
  \/ \E h \in Slots : LaunchRead(h)
  \/ \E h \in Slots, killed \in BOOLEAN : Shutdown(h, killed)
  \/ \E h \in Slots, our \in Names \cup {NoName} : ReleaseDojo(h, our)
  \/ \E h \in Slots, killed \in BOOLEAN : ReleaseKill(h, killed)
  \/ \E h \in Slots : ReleaseRename(h)

\* ========================================================= specifications

\* the issuer of SpecPort, unused
IdlePortVars == /\ conf = [start |-> 0, end |-> 0] /\ range = conf
                /\ last = NoCall /\ issued = {} /\ dup = FALSE /\ failed = FALSE

InitLock == InitLockVars /\ IdlePortVars /\ InitPierVars
SpecLock == InitLock /\ [][NextLock]_vars

InitPort == InitPortVars /\ InitLockVars /\ InitPierVars
SpecPort == InitPort /\ [][NextPort]_vars

Init == InitPierVars /\ InitLockVars /\ IdlePortVars
Next == NextPier
Spec == Init /\ [][Next]_vars

\* the dry dock: the three constructors, loads and drops
SpecDock == Init /\ [][NextDock]_vars

\* new_from_keyfile with loads and drops in between
SpecKeyfile == Init /\ [][NextKeyfile]_vars

\* the first launch of keyfile piers and comets, reloaded or not
SpecBoot == Init /\ [][NextBoot]_vars

\* ships of keyfile piers, shut down or dropped
SpecShip == Init /\ [][NextShip]_vars

\* piers on their way from the dry dock to the port
SpecPromote == Init /\ [][NextPromote]_vars

\* the life of keyfile piers between dry dock, port and running ship
SpecLife == Init /\ [][NextLife]_vars

\* the config.json files of earlier runs read into handles and written back
InitConfig == InitConfigVars /\ InitLockVars /\ IdlePortVars
SpecConfig == InitConfig /\ [][NextConfig]_vars

\* The poll loop of acquire is re-run by the runtime's timer after each
\* sleep, and a ready task is polled: weak fairness of the steps of acquire.
AcquireStep(t) ==
  \/ task[t].pc = "acq_sleep" /\ AcquireExists(t, task[t].path)
  \/ AcquireCreate(t)
FairLock == SpecLock /\ \A t \in Tasks : WF_vars(AcquireStep(t))


\* ================================================================= claims

HoldersOf(p) == {t \in Tasks : task[t].held /\ task[t].path = p}

\* C1: at most one live handle (a PierState, or the PierState inside a
\* Ship) exists for any pier directory.
C1_OneHandlePerDirectory ==
  \A h1 \in Slots, h2 \in Slots :
    (h1 # h2 /\ Returned(h1) /\ Returned(h2)) => hnd[h1].meta # hnd[h2].meta

\* C3: a load of a pier that a live handle holds fails with "already
\* locked" and returns no handle: a load that came to its try_acquire while
\* a returned handle was bound to the directory ended "already locked", and
\* none passed it.
C3_LoadOfHeldPierFails ==
  /\ (opres.op \in {"load_from_port", "load_from_dry_dock"} /\ opres.held)
        => opres.result = "already_locked"
  /\ \A h \in Slots : ~hnd[h].aliased

\* C2: of the try_acquire calls on one path, at most one returns a held
\* lock: no two locks obtained by try_acquire are held on the same path.
C2_AtMostOneTryAcquire ==
  \A p \in Paths :
    Cardinality({t \in HoldersOf(p) : task[t].via = "try"}) <= 1

\* C4: while a task holds a FileLock that try_acquire or acquire returned,
\* the marker file exists at the lock's path.
C4_MarkerPresentWhileHeld ==
  \A t \in Tasks :
    (task[t].held /\ task[t].pc = "idle") => marker[task[t].path]

\* C5: acquire never returns early: a lock returned by acquire was not
\* returned while another lock held the path, and it never shares its path
\* with another holder.
C5_AcquireNeverEarly ==
  \A t \in Tasks :
    (task[t].held /\ task[t].via = "acq") =>
      (~task[t].early /\ HoldersOf(task[t].path) = {t})

\* C6: acquire leaves its poll loop only on seeing the marker absent (while
\* the marker is present it keeps polling), and a sleeping acquire returns a
\* lock once the marker is removed and stays removed.
C6_AcquirePollsUntilAbsent ==
  /\ [][\A t \in Tasks :
          (task[t].pc # "acq_create" /\ task'[t].pc = "acq_create")
             => ~marker[task'[t].path]]_vars
  /\ [][\A t \in Tasks :
          (task[t].pc = "acq_sleep" /\ marker[task[t].path] /\ marker' = marker)
             => task'[t].pc = "acq_sleep"]_vars
  /\ \A t \in Tasks, p \in Paths :
       (<>[](~marker[p])) =>
         ((task[t].pc = "acq_sleep" /\ task[t].path = p)
            ~> (task[t].held /\ task[t].via = "acq" /\ task[t].path = p))

\* a task that slept in acquire on a present marker now holds the lock
C6_Witness ==
  \E t \in Tasks : task[t].held /\ task[t].via = "acq" /\ task[t].waited

\* C7: release never fails: releasing a lock whose marker is absent
\* returns Ok.
C7_ReleaseIdempotent ==
  \A t \in Tasks : task[t].pc # "rel_drop" /\ task[t].ret # "release_err"

\* C8: no two successful get_port calls on the issuer return the same port.
C8_NoPortTwice == ~dup

\* two different ports were issued
C8_Witness == Cardinality(issued) >= 2

\* C9: once a get_port call has failed every later call fails, whatever is
\* bindable then, and the cursor never moves backwards.
C9_ExhaustionTerminal ==
  [][(failed => last'.kind = "err") /\ range'.start >= range.start]_vars

\* a call failed after an earlier failure although a port of the configured
\* range was bindable
C9_Witness ==
  /\ last.kind = "err" /\ last.afterFail
  /\ \E q \in last.probe : conf.start <= q /\ q < conf.end

\* C10: a successful get_port returns the first port from the cursor on
\* that was bindable when probed, inside the configured range, and leaves
\* the cursor just past it; a failed one found no port of [cursor, end)
\* bindable.
C10_FirstBindable ==
  /\ last.kind = "ok" =>
       /\ last.from <= last.port /\ last.port < range.end
       /\ conf.start <= last.port /\ last.port < conf.end
       /\ last.port \in last.probe
       /\ \A q \in last.from..(last.port - 1) : q \notin last.probe
       /\ range.start = last.port + 1
  /\ last.kind = "err" =>
       \A q \in last.from..(range.end - 1) : q \notin last.probe
  /\ range.end = conf.end /\ range.start <= U16Max

\* a call skipped a port that was not bindable and returned a later one
C10_Witness == last.kind = "ok" /\ last.port > last.from

\* C11: when new_from_pier_archive has returned, with success or with any
\* failure, neither the scratch archive file nor the scratch unpack
\* directory exists in the pier's staging directory (nor anywhere else in
\* the harbor at any time).
C11_NoScratchLeft ==
  /\ \A i \in Ids : ~fs.dock[i].archive /\ ~fs.dock[i].unpack
  /\ \A n \in Names : ~fs.port[n].archive /\ ~fs.port[n].unpack

\* new_from_pier_archive returned a failure for an archive that does not
\* decode, and its staging directory is there with the config.json the
\* dropped PierState wrote
C11_Witness ==
  /\ opres.op = "new_from_pier_archive" /\ opres.arg = "undecodable"
  /\ opres.result # "ok"
  /\ \E i \in Ids :
       /\ fs.dock[i].exists /\ ~fs.dock[i].keyfile
       /\ fs.dock[i].config.id = i /\ fs.dock[i].config.name = NoName

\* C12: new_from_pier_archive given a well-formed archive with a ship
\* directory in it succeeds and returns a staging-zone pier with
\* initialized = true whose data directory exists and whose lock is held.
C12_ArchiveSucceeds ==
  (opres.op = "new_from_pier_archive" /\ opres.arg = "ship") =>
    /\ opres.result = "ok"
    /\ \E h \in Slots :
         /\ hnd[h].kind = "pier" /\ hnd[h].name = NoName
         /\ hnd[h].dry_docked /\ hnd[h].initialized
         /\ DirAt(fs, hnd[h].meta).pier
         /\ DirAt(fs, hnd[h].meta).lockfile

\* C13: in new_from_keyfile the lock is taken right after the staging
\* directory is created and before anything is written: the keyfile is
\* written only while the pier's lockfile marks the directory as held, and
\* between create_dir and the keyfile write no PierState of another call is
\* bound to the directory.
C13_KeyfileWrittenUnderLock ==
  /\ [][\A h \in Slots :
          (hnd[h].kind \in {"new_locked", "new_opened"} /\ hnd'[h] # hnd[h])
             => DirAt(fs, hnd[h].meta).lockfile]_vars
  /\ [](\A h \in Slots, g \in Slots :
          (hnd[h].kind \in {"new_dir", "new_locked", "new_opened"}
             /\ g # h /\ HasPier(g))
             => hnd[g].meta # hnd[h].meta)

\* C14: every new_from_keyfile call, whatever its name, gets an identifier
\* that no handle and no directory carries and creates a staging directory
\* that did not exist; and load_from_dry_dock of an identifier without a
\* directory fails "not found" and changes neither the harbor nor the
\* handles.
C14_DistinctIdsAndNotFound ==
  /\ [][nextId' # nextId =>
          /\ ~DirAt(fs, DockPath(nextId)).exists
          /\ \A h \in Slots : hnd[h].id # nextId
          /\ DirAt(fs', DockPath(nextId)).exists
          /\ \E h \in Slots :
               hnd'[h].id = nextId /\ hnd'[h].meta = DockPath(nextId)]_vars
  /\ [][\A i \in Ids \cup {StrayId} :
          (LoadDockIsDir(i) /\ ~DirAt(fs, DockPath(i)).exists)
             => (opres'.result = "not_found" /\ fs' = fs /\ hnd' = hnd)]_vars

\* two new_from_keyfile calls with one name left two staging directories
\* with different identifiers, and a load by a third identifier failed
C14_Witness ==
  /\ opres.op = "load_from_dry_dock" /\ opres.id = StrayId
  /\ opres.result = "not_found"
  /\ \E i \in Ids, j \in Ids :
       /\ i # j /\ fs.dock[i].keyfile /\ fs.dock[j].keyfile
       /\ fs.dock[i].config.name # NoName
       /\ fs.dock[i].config.name = fs.dock[j].config.name
       /\ fs.dock[i].config.id # fs.dock[j].config.id

\* the config.json of a port directory does not show the directory's name:
\* it is missing or unparsable, or it carries another name
Corrupt(n) ==
  LET config == ReadConfig(fs.port[n].config)
  IN config = NoConfig \/ config.name \notin {n, NoName}

\* C15: load_from_port of a directory whose config.json is missing or
\* unparsable, or carries a name that is not the directory's name, fails
\* with a configuration error, returns no handle and leaves the persisted
\* configuration as it was: a load that reads such a config.json, at its
\* first reading or at its second, ends there with a configuration error
\* and the file unchanged, and no load returns a handle whose configuration
\* carries another name than the directory.
C15_CorruptConfigRejected ==
  /\ [][\A h \in Slots :
          (/\ hnd[h].kind \in {"lfp_locked", "lfp_checked"}
           /\ hnd'[h] # hnd[h]
           /\ Corrupt(hnd[h].name))
            => /\ opres'.op = "load_from_port"
               /\ opres'.result = "config_error"
               /\ hnd'[h].kind = "free"
               /\ fs'.port[hnd[h].name].config = fs.port[hnd[h].name].config]_vars
  /\ [][\A h \in Slots :
          (hnd[h].kind = "lfp_config" /\ hnd'[h].kind = "pier")
            => hnd'[h].config.name = hnd'[h].name]_vars

\* the step is the one in which the launch in slot h has its second port
\* and selects its start mode
Selects(h) == hnd[h].kind = "l_ames" /\ hnd'[h] # hnd[h]

\* C16: launch selects a start mode from the pier state alone: resume if
\* initialized, else comet if the pending boot mode is comet, else the
\* keyfile with the pier's name; it always has a mode to select, the
\* process it starts is started in that mode, and after a successful launch
\* initialized is true.
C16_StartModeFromState ==
  [][\A h \in Slots :
       LET p == hnd[h]
           mode == IF p.initialized THEN "resume"
                   ELSE IF p.comet THEN "comet" ELSE "keyfile"
       IN /\ Selects(h) => opres'.result # "panic"
          /\ (p.kind = "l_http" /\ hnd'[h].kind = "l_exec")
               => \E q \in procs' \ procs : q.dir = p.meta /\ q.mode = mode
          /\ (p.kind = "l_exec" /\ hnd'[h].kind = "ship")
               => hnd'[h].initialized]_vars

\* C17: a Ship's http_port was issued by the http issuer and lies in its
\* range, its ames_port was issued by the ames issuer and lies in its range,
\* and the ship's process was started with these two ports in these roles.
C17_PortsInTheirRoles ==
  \A h \in Slots :
    hnd[h].kind = "ship" =>
      /\ hnd[h].http \in HttpPorts
      /\ hnd[h].ames \in AmesPorts
      /\ \E q \in procs :
           q.dir = hnd[h].meta /\ q.http = hnd[h].http /\ q.ames = hnd[h].ames

\* C18: while a Ship exists its pier's lockfile is in place, no other
\* PierState is bound to its directory, and a load of its pier that comes
\* to its try_acquire fails "already locked" and returns nothing.
C18_ShipHoldsThePier ==
  /\ [](\A h \in Slots :
          hnd[h].kind = "ship" =>
            /\ DirAt(fs, hnd[h].meta).lockfile
            /\ \A g \in Slots \ {h} : HasPier(g) => hnd[g].meta # hnd[h].meta)
  /\ [][\A h \in Slots, g \in Slots :
          (/\ hnd[h].kind = "ship" /\ hnd[g].kind = "ldd_dir"
           /\ hnd[g].meta = hnd[h].meta /\ hnd'[g] # hnd[g])
             => (opres'.result = "already_locked" /\ hnd'[g].kind = "free")]_vars

\* C19: a successful shutdown leaves no process of the ship running and
\* returns the ship's PierState: same identifier and directory, its
\* lockfile still in place, initialized, and launch would resume it.
C19_ShutdownReturnsThePier ==
  [][\A h \in Slots :
       (/\ hnd[h].kind = "ship" /\ hnd'[h] # hnd[h]
        /\ opres'.op = "shutdown" /\ opres'.result = "ok")
         => /\ hnd'[h].kind = "pier"
            /\ hnd'[h].id = hnd[h].id /\ hnd'[h].meta = hnd[h].meta
            /\ hnd'[h].initialized /\ StartMode(hnd'[h]) = "resume"
            /\ \A q \in procs' : q.pid # hnd[h].proc
            /\ DirAt(fs', hnd[h].meta).lockfile]_vars

\* the step is the first of a release_from_dry_dock of the PierState in
\* slot h
ReleaseOf(h) ==
  /\ hnd[h].kind = "pier"
  /\ \/ hnd'[h].call = "release_from_dry_dock"
     \/ hnd'[h].kind = "free" /\ opres'.op = "release_from_dry_dock"

\* C20: release_from_dry_dock on an uninitialized pier fails as an illegal
\* state transition and changes nothing: no directory is moved, no process
\* started, no port issued.
C20_ReleaseNeedsInitialized ==
  [][\A h \in Slots :
       (ReleaseOf(h) /\ ~hnd[h].initialized)
         => /\ opres'.result = "illegal_state"
            /\ fs' = fs /\ procs' = procs
            /\ http' = http /\ ames' = ames]_vars

\* the step is the rename of a release_from_dry_dock, its last
Renames(h) == hnd[h].kind = "r_killed" /\ hnd'[h] # hnd[h]

\* C21: release_from_dry_dock moves the directory or leaves the handle in
\* the dry dock.  After a successful release of a dry-docked pier the
\* directory exists in the port under the name the handle carries, no
\* longer exists in the dry dock, and the handle records the port path and
\* dry_docked = false; when the rename fails the handle still records the
\* dry-dock path and dry_docked = true.
C21_ReleaseMovesOrStays ==
  [][\A h \in Slots : Renames(h) =>
       /\ opres'.result = "ok" =>
            /\ hnd'[h].kind = "pier" /\ hnd'[h].name \in Names
            /\ DirAt(fs', PortPath(hnd'[h].name)).exists
            /\ ~DirAt(fs', DockPath(hnd[h].id)).exists
            /\ hnd'[h].meta = PortPath(hnd'[h].name)
            /\ ~hnd'[h].dry_docked
       /\ opres'.result = "rename_error" =>
            /\ hnd'[h].kind = "pier"
            /\ hnd'[h].meta = DockPath(hnd[h].id)
            /\ hnd'[h].dry_docked]_vars

\* C22: a handle outside the dry dock is initialized, and so is a running
\* ship.  In every state, every PierState (alone, in a Ship or inside a
\* call) with dry_docked = false or with its directory in the port has
\* initialized = true, and so has every PierState whose process runs.
C22_LiveAndRunningInitialized ==
  \A h \in Slots : HasPier(h) =>
    /\ (~hnd[h].dry_docked \/ hnd[h].meta.zone = "port") => hnd[h].initialized
    /\ (hnd[h].kind = "ship" \/ hnd[h].proc # 0) => hnd[h].initialized

\* a pier that was created uninitialized runs as a ship, and another handle
\* is in the port
C22_Witness ==
  \E h, g \in Slots :
    /\ hnd[h].kind = "ship" /\ hnd[h].dry_docked
    /\ hnd[g].kind = "pier" /\ ~hnd[g].dry_docked /\ hnd[g].meta.zone = "port"

\* the step is the one in which the load_from_port in slot h returns
LoadPortReturns(h) ==
  /\ hnd[h].kind \in {"lfp_dir", "lfp_locked", "lfp_checked", "lfp_config"}
  /\ hnd'[h].kind \in {"free", "pier"}

\* C23: a released pier can be loaded again.  When a directory stands in
\* the port under a name (release_from_dry_dock moved it there) and nothing
\* but the load is bound to it (the handle was dropped), load_from_port of
\* that name succeeds and returns an initialized handle with that name and
\* the identifier of the directory's config.json.
C23_ReleasedPierReloads ==
  [][\A h \in Slots :
       (/\ LoadPortReturns(h)
        /\ DirAt(fs, hnd[h].meta).exists
        /\ \A g \in Slots \ {h} : hnd[g].kind = "free")
         => /\ opres'.result = "ok"
            /\ hnd'[h].kind = "pier"
            /\ hnd'[h].name = hnd[h].name /\ hnd'[h].initialized
            /\ hnd'[h].meta = PortPath(hnd[h].name)
            /\ hnd'[h].id = ReadConfig(DirAt(fs, hnd[h].meta).config).id]_vars

\* C24: the configuration round trip.  Whenever a pier handle is finalized
\* (dropped), the config.json it leaves in its directory reads back, by
\* load_config, as the PierConfig the handle carried: the same id, the same
\* optional name and the same runtime version.
C24_ConfigRoundTrip ==
  [][\A h \in Slots :
       (hnd[h].kind = "pier" /\ hnd'[h].kind = "free" /\ opres'.op = "drop")
         => ReadConfig(DirAt(fs', hnd[h].meta).config) = hnd[h].config]_vars

\* C25: a dropped handle leaves its directory consistent.  Whenever a
\* PierState is dropped, alone, with its Ship or by a call that took it,
\* the directory the handle was a handle to, if it still exists, afterwards
\* has no lockfile and a config.json that reads back as the handle's
\* PierConfig.
C25_DropLeavesDirConsistent ==
  [][\A h \in Slots :
       (HasPier(h) /\ hnd'[h].kind = "free"
          /\ DirAt(fs', hnd[h].meta).exists)
         => /\ ~DirAt(fs', hnd[h].meta).lockfile
            /\ ReadConfig(DirAt(fs', hnd[h].meta).config) = hnd[h].config]_vars

\* how a directory made by new_from_keyfile or new_comet was meant to be
\* booted: new_from_keyfile alone puts a keyfile in it
BornAs(d) == IF d.keyfile THEN "keyfile" ELSE "comet"

\* C26: the pending boot mode stays with the pier until its first launch.
\* Whenever a launch selects the start mode for a handle whose directory
\* has never been booted (no pier/ in it), whether the handle comes from
\* the constructor or from load_from_dry_dock, it selects the mode the pier
\* was created for: comet for a pier of new_comet, keyfile with the pier's
\* name for a pier of new_from_keyfile; it does not panic, and a process it
\* starts is started in that mode.
C26_BootModeCarried ==
  [][\A h \in Slots :
       LET d == DirAt(fs, hnd[h].meta)
       IN (d.exists /\ ~d.pier) =>
            /\ Selects(h) =>
                 /\ opres'.result # "panic"
                 /\ BornAs(d) = "keyfile" => hnd[h].name \in Names
            /\ (hnd[h].kind = "l_http" /\ hnd'[h].kind = "l_exec")
                 => \A q \in procs' \ procs : q.mode = BornAs(d)]_vars

\* C27: no process runs on an unlocked pier.  In every state, every process
\* that launch started and that is still running belongs to a Ship, or to
\* the launch that is about to return it, whose PierState records the
\* directory the process runs in, and the lockfile of that directory is
\* present.
C27_ProcessUnderLock ==
  \A q \in procs :
    \E h \in Slots :
      /\ HasPier(h) /\ hnd[h].proc = q.pid
      /\ hnd[h].meta = q.dir
      /\ DirAt(fs, q.dir).lockfile

\* C28: the lock follows the directory into the port.  In every state, a
\* handle with dry_docked = false has its FileLock on the lockfile of the
\* directory it records, and that lockfile is present; and a directory in
\* the port to which no returned handle is bound has no lockfile.
C28_LockFollowsDirectory ==
  /\ \A h \in Slots :
       (Returned(h) /\ ~hnd[h].dry_docked)
         => /\ hnd[h].lockAt = hnd[h].meta
            /\ DirAt(fs, hnd[h].meta).lockfile
  /\ \A n \in Names :
       DirAt(fs, PortPath(n)).lockfile => HeldDir(PortPath(n))

====
